---- MODULE Spec2Model ----
(***************************************************************************)
(* A model of pyramid.scripting: get_root, prepare, the closers they       *)
(* return, AppEnvironment and _make_request, together with the             *)
(* thread-local stack of request/registry frames they push and pop.        *)
(***************************************************************************)
EXTENDS Integers, Sequences, FiniteSets, TLC

\* ---------------------------------------------------------------- bounds
\* request objects that exist
MaxRequests == 2
\* calls of prepare()/get_root() that returned
MaxSessions == 2
\* frames on the stack up to which NextCall makes a further call
MaxPending == 1

\* ---------------------------------------------------------------- values
None == "None"
Missing == "Missing"
Registries == {"R1", "R2"}

\* values of request.context: a pair <<tag, request id>>
CtxMissing == <<"Missing", 0>>
CtxNone == <<"None", 0>>
UserCtx == <<"userctx", 0>>

DefaultRootFactory == "DefaultRootFactory"

\* the IRootFactory utility registered in each registry (None: not registered)
RegisteredRootFactory(registry) == IF registry = "R1" THEN "rfA" ELSE None

\* the value a root factory returns for a request
Root(root_factory, r) == <<root_factory, r>>

NoFrame == [request |-> 0, registry |-> None]
Frame(r, g) == [request |-> r, registry |-> g]
Top(stk) == IF Len(stk) = 0 THEN NoFrame ELSE stk[Len(stk)]

Event(e, r, stk, f, v) == [ev |-> e, req |-> r, top |-> Top(stk), fn |-> f, ret |-> v]

\* the requests a caller passes in: registry attribute and context
UserRequests ==
    {<<Missing, CtxMissing>>, <<None, CtxNone>>, <<"R1", UserCtx>>, <<"R2", CtxNone>>}

\* what the collaborators called by prepare() do: all succeed (the root
\* factory possibly setting request.context), or one of them raises
Outcomes ==
    {"ok", "ok_sets_context", "request_factory_fail", "extensions_fail", "root_factory_fail"}

GetRootOutcomes == {"ok", "request_factory_fail", "root_factory_fail"}

\* last:     global_registries.last
\* reqs:     the request objects, by identity 1 .. Len(reqs)
\* stack:    the thread-local stack of frames, top last
\* sessions: what the successful prepare()/get_root() calls returned
\* lastop:   the last operation, its arguments, result and the calls it made
\* nested:   every closer so far was the first call of the closer of the
\*           most recently opened open session, and no call failed after
\*           pushing its frame
VARIABLES last, reqs, stack, sessions, lastop, nested

vars == <<last, reqs, stack, sessions, lastop, nested>>

\* the part of the state the functions of the module read and write
Machine == [reqs |-> reqs, stack |-> stack, sessions |-> sessions, trace |-> <<>>]

BlankOp ==
    [op |-> "init", session |-> 0, argRequest |-> 0, argRegistry |-> None,
     reqAttr |-> Missing, resolved |-> None,
     request |-> 0, result |-> "ok", trace |-> <<>>,
     returned |-> 0, exc |-> FALSE, propagated |-> FALSE,
     ctxAtRoot |-> CtxMissing]

\* ------------------------------------------------- external collaborators
\* RequestContext.begin: push the request and its registry
begin(m, r) ==
    [m EXCEPT !.stack = Append(m.stack, Frame(r, m.reqs[r].registry)),
              !.trace = Append(m.trace,
                  Event("push", r, Append(m.stack, Frame(r, m.reqs[r].registry)), None, CtxNone))]

\* RequestContext.end: pop the top frame (nothing to pop on an empty stack)
end(m) ==
    [m EXCEPT !.stack = IF Len(m.stack) = 0 THEN <<>> ELSE SubSeq(m.stack, 1, Len(m.stack) - 1),
              !.trace = Append(m.trace, Event("pop", Top(m.stack).request, m.stack, None, CtxNone))]

\* apply_request_extensions(request)
apply_request_extensions(m, r) ==
    [m EXCEPT !.trace = Append(m.trace, Event("extensions", r, m.stack, None, CtxNone))]

\* request._process_finished_callbacks(): run and drain the callbacks
_process_finished_callbacks(m, r) ==
    [m EXCEPT !.reqs[r].finished_callbacks = FALSE,
              !.trace = Append(m.trace, Event("finished", r, m.stack, None, CtxNone))]

\* root_factory(request)
call_root_factory(m, f, r) ==
    [m EXCEPT !.trace = Append(m.trace, Event("root_factory", r, m.stack, f, Root(f, r)))]

\* request_factory.blank(path): a new request without registry or context
blank(m) ==
    [m EXCEPT !.reqs = Append(m.reqs,
        [registry |-> Missing, context |-> CtxMissing, finished_callbacks |-> FALSE])]

\* ------------------------------------------------------ pyramid.scripting
\* _make_request(path, registry)
_make_request(m, registry, lst) ==
    LET g == IF registry = None THEN lst ELSE registry
        m1 == blank(m)
    IN [m1 EXCEPT !.reqs[Len(m1.reqs)].registry = g]

\* prepare: registry = getattr(request, 'registry', global_registries.last)
ResolveRegistry(request, registry_arg, rs, lst) ==
    IF registry_arg # None THEN registry_arg
    ELSE IF request = 0 THEN lst
    ELSE IF rs[request].registry = Missing THEN lst
    ELSE rs[request].registry

\* faulty: only a missing registry is rejected
NoRegistryMissingOnly(registry) == registry = Missing

\* prepare: if registry is None: raise ConfigurationError
NoRegistry(registry) == registry = None

\* faulty: a registry the request already carries is kept
SetRegistryKept(m, r, registry) ==
    IF m.reqs[r].registry \in Registries THEN m ELSE [m EXCEPT !.reqs[r].registry = registry]

\* request.registry = registry
SetRegistry(m, r, registry) == [m EXCEPT !.reqs[r].registry = registry]

\* faulty: the extensions are applied before the frame is pushed
PrepareSetupExtensionsFirst(m, r) == begin(apply_request_extensions(m, r), r)

\* prepare: ctx = RequestContext(request); ctx.begin(); apply_request_extensions(request)
PrepareSetup(m, r) == apply_request_extensions(begin(m, r), r)

\* prepare: registry.queryUtility(IRootFactory, default=DefaultRootFactory)
QueryRootFactory(registry) ==
    IF RegisteredRootFactory(registry) = None THEN DefaultRootFactory
    ELSE RegisteredRootFactory(registry)

\* faulty: the context is overwritten whatever it was
AssociateRootAlways(m, r, root) == [m EXCEPT !.reqs[r].context = root]

\* prepare: if getattr(request, 'context', None) is None: request.context = root
AssociateRoot(m, r, root) ==
    IF m.reqs[r].context = CtxMissing \/ m.reqs[r].context = CtxNone
    THEN [m EXCEPT !.reqs[r].context = root]
    ELSE m

\* a root factory may itself set request.context
RootFactoryEffect(m, r, outcome) ==
    IF outcome = "ok_sets_context" THEN [m EXCEPT !.reqs[r].context = UserCtx] ELSE m

\* the bundle prepare returns (get_root: the pair root, closer), with the
\* stack found at the call and whether its closer has been called
NewSession(m, kind, root, registry, r, rf, before) ==
    [m EXCEPT !.sessions = Append(m.sessions,
        [kind |-> kind, root |-> root, registry |-> registry, request |-> r,
         root_factory |-> rf, before |-> before, closed |-> FALSE])]

\* faulty: ctx.end() is forgotten
prepare_closer_no_end(m, r) ==
    IF m.reqs[r].finished_callbacks THEN _process_finished_callbacks(m, r) ELSE m

\* faulty: the frame is popped before the callbacks are processed
prepare_closer_end_first(m, r) ==
    LET m1 == end(m)
    IN IF m1.reqs[r].finished_callbacks THEN _process_finished_callbacks(m1, r) ELSE m1

\* prepare.closer
prepare_closer(m, r) ==
    LET m1 == IF m.reqs[r].finished_callbacks THEN _process_finished_callbacks(m, r) ELSE m
    IN end(m1)

\* get_root.closer
get_root_closer(m) == end(m)

\* a call of the closer of session s
CallCloser(m, s) ==
    LET m0 == [m EXCEPT !.trace = Append(m.trace,
                  Event("closer", m.sessions[s].request, m.stack, None, CtxNone))]
        m1 == IF m.sessions[s].kind = "prepare"
              THEN prepare_closer(m0, m.sessions[s].request)
              ELSE get_root_closer(m0)
    IN [m1 EXCEPT !.sessions[s].closed = TRUE]

\* AppEnvironment.__enter__
AppEnvironment__enter__(s) == s

\* faulty: the closer is not called
AppEnvironment__exit__no_closer(m, s) == [m |-> m, ret |-> FALSE]

\* AppEnvironment.__exit__: calls the closer and returns None
AppEnvironment__exit__(m, s) == [m |-> CallCloser(m, s), ret |-> FALSE]

Failed(m, res, r, g) == [m |-> m, result |-> res, request |-> r, resolved |-> g]

\* prepare(request, registry)
prepare(m, request, registry_arg, lst, outcome) ==
    LET registry == ResolveRegistry(request, registry_arg, m.reqs, lst)
    IN IF NoRegistry(registry) THEN Failed(m, "ConfigurationError", request, registry)
       ELSE IF request = 0 /\ outcome = "request_factory_fail"
       THEN Failed(m, outcome, 0, registry)
       ELSE
         LET m1 == IF request = 0 THEN _make_request(m, registry, lst) ELSE m
             r == IF request = 0 THEN Len(m1.reqs) ELSE request
             m2 == SetRegistry(m1, r, registry)
             m3 == PrepareSetup(m2, r)
             root_factory == QueryRootFactory(registry)
             m4 == RootFactoryEffect(call_root_factory(m3, root_factory, r), r, outcome)
             m5 == AssociateRoot(m4, r, Root(root_factory, r))
         IN IF outcome = "extensions_fail" THEN Failed(m3, outcome, r, registry)
            ELSE IF outcome = "root_factory_fail" THEN Failed(m4, outcome, r, registry)
            ELSE [m |-> NewSession(m5, "prepare", Root(root_factory, r), registry, r,
                                   root_factory, m.stack),
                  result |-> "ok", request |-> r, resolved |-> registry,
                  ctxAtRoot |-> m4.reqs[r].context]

\* get_root(app, request); an app is named by its registry
get_root(m, app, request, lst, outcome) ==
    IF request = 0 /\ outcome = "request_factory_fail"
    THEN Failed(m, outcome, 0, app)
    ELSE
      LET m1 == IF request = 0 THEN _make_request(m, app, lst) ELSE m
          r == IF request = 0 THEN Len(m1.reqs) ELSE request
          m2 == SetRegistry(m1, r, app)
          m3 == begin(m2, r)
          root_factory == QueryRootFactory(app)
          m4 == RootFactoryEffect(call_root_factory(m3, root_factory, r), r, outcome)
      IN IF outcome = "root_factory_fail" THEN Failed(m4, outcome, r, app)
         ELSE [m |-> NewSession(m4, "get_root", Root(root_factory, r), app, r,
                                root_factory, m.stack),
               result |-> "ok", request |-> r, resolved |-> app]

\* ---------------------------------------------------------------- state
Init ==
    /\ last = None
    /\ reqs = <<>>
    /\ stack = <<>>
    /\ sessions = <<>>
    /\ lastop = BlankOp
    /\ nested = TRUE

Commit(m) ==
    /\ reqs' = m.reqs
    /\ stack' = m.stack
    /\ sessions' = m.sessions

\* the sessions whose closer has not been called yet, oldest first
OpenSessions(ss) == SelectSeq(ss, LAMBDA b : ~b.closed)

RECURSIVE LastOpen(_, _)
LastOpen(ss, i) ==
    IF i = 0 THEN 0
    ELSE IF ~ss[i].closed THEN i
    ELSE LastOpen(ss, i - 1)

\* an application is set up: global_registries.last is recorded
LoadApp(g) ==
    /\ last # g
    /\ last' = g
    /\ lastop' = [BlankOp EXCEPT !.op = "load_app"]
    /\ UNCHANGED <<reqs, stack, sessions, nested>>

\* the caller constructs a request of its own, to pass it in
WithRequest(q) ==
    [Machine EXCEPT !.reqs = Append(reqs,
        [registry |-> q[1], context |-> q[2], finished_callbacks |-> FALSE])]

\* request.add_finished_callback(callback), by code that runs in a session
\* of the request
AddFinishedCallback(r) ==
    /\ ~reqs[r].finished_callbacks
    /\ \E i \in 1 .. Len(sessions) : sessions[i].request = r /\ ~sessions[i].closed
    /\ reqs' = [reqs EXCEPT ![r].finished_callbacks = TRUE]
    /\ lastop' = [BlankOp EXCEPT !.op = "add_finished_callback"]
    /\ UNCHANGED <<last, stack, sessions, nested>>

CallPrepare(m, request, registry_arg, outcome) ==
    /\ Len(sessions) < MaxSessions
    /\ Len(m.reqs) <= MaxRequests
    /\ request = 0 => Len(m.reqs) < MaxRequests
    /\ outcome = "request_factory_fail" => request = 0
    /\ LET res == prepare(m, request, registry_arg, last, outcome)
       IN /\ Commit(res.m)
          /\ lastop' = [BlankOp EXCEPT
                !.op = "prepare",
                !.session = IF res.result = "ok" THEN Len(res.m.sessions) ELSE 0,
                !.argRequest = request, !.argRegistry = registry_arg,
                !.reqAttr = IF request = 0 THEN Missing ELSE m.reqs[request].registry,
                !.resolved = res.resolved, !.request = res.request,
                !.result = res.result, !.trace = res.m.trace,
                !.ctxAtRoot = IF res.result = "ok" THEN res.ctxAtRoot ELSE CtxMissing]
          /\ nested' = (nested /\ res.result \notin {"extensions_fail", "root_factory_fail"})
    /\ UNCHANGED last

CallGetRoot(m, app, request, outcome) ==
    /\ Len(sessions) < MaxSessions
    /\ Len(m.reqs) <= MaxRequests
    /\ request = 0 => Len(m.reqs) < MaxRequests
    /\ outcome = "request_factory_fail" => request = 0
    /\ LET res == get_root(m, app, request, last, outcome)
       IN /\ Commit(res.m)
          /\ lastop' = [BlankOp EXCEPT
                !.op = "get_root",
                !.session = IF res.result = "ok" THEN Len(res.m.sessions) ELSE 0,
                !.argRequest = request, !.argRegistry = app,
                !.reqAttr = IF request = 0 THEN Missing ELSE m.reqs[request].registry,
                !.resolved = res.resolved, !.request = res.request,
                !.result = res.result, !.trace = res.m.trace]
          /\ nested' = (nested /\ res.result # "root_factory_fail")
    /\ UNCHANGED last

\* the caller calls the closer of session s
Closer(s) ==
    /\ LET m == CallCloser(Machine, s)
       IN /\ Commit(m)
          /\ lastop' = [BlankOp EXCEPT
                !.op = "closer", !.session = s, !.request = sessions[s].request,
                !.trace = m.trace]
    /\ nested' = (nested /\ s = LastOpen(sessions, Len(sessions)))
    /\ UNCHANGED last

\* with prepare(...) as env: the scope is entered
Enter(s) ==
    /\ sessions[s].kind = "prepare"
    /\ lastop' = [BlankOp EXCEPT !.op = "enter", !.session = s,
                                 !.returned = AppEnvironment__enter__(s)]
    /\ UNCHANGED <<last, reqs, stack, sessions, nested>>

\* the scope is left, normally or (exc) by an exception of the body
Exit(s, exc) ==
    /\ sessions[s].kind = "prepare"
    /\ LET res == AppEnvironment__exit__(Machine, s)
       IN /\ Commit(res.m)
          /\ lastop' = [BlankOp EXCEPT
                !.op = "exit", !.session = s, !.request = sessions[s].request,
                !.trace = res.m.trace,
                !.exc = exc, !.propagated = (exc /\ ~res.ret)]
    /\ nested' = (nested /\ s = LastOpen(sessions, Len(sessions)))
    /\ UNCHANGED last

ReqArgs == 0 .. Len(reqs)

\* one call at a time: how prepare and get_root treat their arguments, the
\* last loaded registry and the failures of the collaborators; the request
\* passed in is None, a request passed before, or a new one
NextCall ==
    \/ \E g \in Registries : LoadApp(g)
    \/ \E r \in ReqArgs, g \in Registries \cup {None}, o \in Outcomes :
          Len(stack) < MaxPending /\ CallPrepare(Machine, r, g, o)
    \/ \E q \in UserRequests, g \in Registries \cup {None}, o \in Outcomes :
          Len(stack) < MaxPending /\ CallPrepare(WithRequest(q), Len(reqs) + 1, g, o)
    \/ \E a \in Registries, r \in ReqArgs, o \in GetRootOutcomes :
          Len(stack) < MaxPending /\ CallGetRoot(Machine, a, r, o)
    \/ \E q \in UserRequests, a \in Registries, o \in GetRootOutcomes :
          Len(stack) < MaxPending /\ CallGetRoot(WithRequest(q), a, Len(reqs) + 1, o)

SpecCall == Init /\ [][NextCall]_vars

\* scripting sessions: opened with an explicit registry, used and closed
NextSession ==
    \/ \E r \in ReqArgs, g \in Registries : CallPrepare(Machine, r, g, "ok")
    \/ \E a \in Registries, r \in ReqArgs : CallGetRoot(Machine, a, r, "ok")
    \/ \E r \in 1 .. Len(reqs) : AddFinishedCallback(r)
    \/ \E s \in 1 .. Len(sessions) : Closer(s)
    \/ \E s \in 1 .. Len(sessions) : Enter(s)
    \/ \E s \in 1 .. Len(sessions), exc \in BOOLEAN : Exit(s, exc)

SpecSession == Init /\ [][NextSession]_vars

TypeOK ==
    /\ last \in Registries \cup {None}
    /\ Len(reqs) <= MaxRequests
    /\ Len(stack) <= MaxSessions
    /\ Len(sessions) <= MaxSessions

\* ---------------------------------------------------------------- claims
IsClose == lastop.op = "closer" \/ lastop.op = "exit"
PrepareOk == lastop.op = "prepare" /\ lastop.result = "ok"

\* C1: prepare() with no registry argument, no request argument and no last
\* loaded registry fails with the ConfigurationError: no bundle is returned
\* and nothing has been done.
C1_NoRegistryFails ==
    (lastop.op = "prepare" /\ lastop.argRequest = 0 /\ lastop.argRegistry = None
        /\ last = None)
    => (lastop.result = "ConfigurationError" /\ lastop.session = 0 /\ lastop.trace = <<>>)

C1_Witness ==
    /\ lastop.op = "prepare" /\ lastop.argRequest = 0 /\ lastop.argRegistry = None
    /\ last = None /\ lastop.result = "ConfigurationError"

\* C2: after a prepare() with a supplied request that returns, the request's
\* registry attribute is the registry of the returned bundle, whatever the
\* attribute was before, and the pushed frame carries that registry.
C2_RequestRegistryReset ==
    (PrepareOk /\ lastop.argRequest # 0)
    => /\ lastop.request = lastop.argRequest
       /\ sessions[lastop.session].request = lastop.argRequest
       /\ reqs[lastop.argRequest].registry = sessions[lastop.session].registry
       /\ lastop.argRegistry # None => sessions[lastop.session].registry = lastop.argRegistry
       /\ lastop.trace[1].ev = "push"
       /\ lastop.trace[1].top = Frame(lastop.argRequest, sessions[lastop.session].registry)
       /\ Top(stack) = Frame(lastop.argRequest, sessions[lastop.session].registry)

C2_Witness ==
    /\ PrepareOk /\ lastop.argRequest # 0
    /\ lastop.reqAttr \in Registries /\ lastop.argRegistry \in Registries
    /\ lastop.reqAttr # lastop.argRegistry
    /\ reqs[lastop.argRequest].registry = lastop.argRegistry

\* C3: entering the scope yields the bundle itself; leaving it calls the
\* bundle's closer exactly once, whether or not the body raised, and an
\* exception of the body is not suppressed.
C3_ScopedResource ==
    /\ lastop.op = "enter" => lastop.returned = lastop.session
    /\ lastop.op = "exit" =>
          /\ Len(SelectSeq(lastop.trace, LAMBDA e : e.ev = "closer")) = 1
          /\ lastop.trace[1].ev = "closer"
          /\ lastop.trace[1].req = sessions[lastop.session].request
          /\ lastop.propagated = lastop.exc

C3_Witness ==
    /\ lastop.op = "exit" /\ lastop.exc /\ lastop.propagated
    /\ sessions[lastop.session].closed /\ Len(lastop.trace) = 3

\* C4: while sessions are properly nested (every closer called once, in
\* reverse order of opening), the stack holds exactly the frames of the open
\* sessions, oldest first, so its top is the frame of the most recently
\* opened session not yet closed; and after a closer the stack is what it was
\* just before the matching prepare()/get_root().
C4_NestedSessions ==
    nested =>
      /\ lastop.result = "ok"
      /\ Len(stack) = Len(OpenSessions(sessions))
      /\ \A i \in 1 .. Len(stack) :
            stack[i] = Frame(OpenSessions(sessions)[i].request,
                             OpenSessions(sessions)[i].registry)
      /\ IsClose => stack = sessions[lastop.session].before

C4_Witness ==
    /\ nested /\ IsClose /\ lastop.session = 2
    /\ ~sessions[1].closed /\ sessions[2].closed
    /\ stack = <<Frame(sessions[1].request, sessions[1].registry)>>

\* C5: calling a closer that has already been called raises no error and
\* leaves the thread-local stack as it was, so that no frame of another
\* session is popped (stated for calls that were properly nested so far).
C5_CloserIdempotent ==
    [][((lastop'.op = "closer" \/ lastop'.op = "exit") /\ nested
          /\ sessions[lastop'.session].closed)
       => (lastop'.result = "ok" /\ stack' = stack)]_vars

\* the registry the fallback order of the documentation yields
Fallback ==
    IF lastop.argRegistry # None THEN lastop.argRegistry
    ELSE IF lastop.argRequest # 0 /\ lastop.reqAttr \notin {Missing, None} THEN lastop.reqAttr
    ELSE last

\* C6: prepare() resolves the registry as: the argument, else the registry
\* attached to the request, else the last loaded one; the ConfigurationError
\* is raised only when all three are absent (attribute missing or None).
C6_FallbackOrder ==
    lastop.op = "prepare" =>
      /\ lastop.result = "ConfigurationError" <=> Fallback = None
      /\ lastop.result # "ConfigurationError" => lastop.resolved = Fallback

\* C7: a successful prepare() pushes the frame, then applies the request
\* extensions, then calls the root factory (the registered one, else the
\* default), each once; the request is on top of the stack when the
\* extensions and the root factory run; the bundle's root is what the
\* bundle's root_factory returned for the bundle's request.
C7_PrepareOrder ==
    PrepareOk =>
      LET b == sessions[lastop.session]
          f == Frame(b.request, b.registry)
          t == lastop.trace
      IN /\ Len(t) = 3
         /\ t[1].ev = "push" /\ t[1].req = b.request /\ t[1].top = f
         /\ t[2].ev = "extensions" /\ t[2].req = b.request /\ t[2].top = f
         /\ t[3].ev = "root_factory" /\ t[3].req = b.request /\ t[3].top = f
         /\ t[3].fn = b.root_factory /\ t[3].ret = b.root
         /\ b.root_factory =
               IF RegisteredRootFactory(b.registry) # None
               THEN RegisteredRootFactory(b.registry) ELSE DefaultRootFactory

C7_Witness ==
    /\ PrepareOk /\ lastop.argRequest = 0
    /\ sessions[lastop.session].root_factory = DefaultRootFactory
    /\ lastop.trace[3].ret = sessions[lastop.session].root

\* what a closer call does apart from which request is current: a prepare()
\* closer whose request has finished callbacks processes them once, then pops
\* the frame; otherwise the closer only pops the frame
TeardownSteps(current) ==
    (lastop'.op = "closer" \/ lastop'.op = "exit") =>
        LET b == sessions[lastop'.session]
            r == b.request
            t == lastop'.trace
        IN IF b.kind = "prepare" /\ reqs[r].finished_callbacks
           THEN /\ Len(t) = 3
                /\ t[2].ev = "finished" /\ t[2].req = r /\ t[2].top = Top(stack)
                /\ current => t[2].top = Frame(r, b.registry)
                /\ t[3].ev = "pop" /\ t[3].top = Top(stack)
                /\ ~reqs'[r].finished_callbacks
                /\ Len(stack) > 0 => stack' = SubSeq(stack, 1, Len(stack) - 1)
           ELSE /\ Len(t) = 2 /\ t[2].ev = "pop"
                /\ reqs' = reqs
                /\ Len(stack) > 0 => stack' = SubSeq(stack, 1, Len(stack) - 1)

C9_ContextAssociated ==
    PrepareOk =>
      IF lastop.ctxAtRoot = CtxMissing \/ lastop.ctxAtRoot = CtxNone
      THEN reqs[lastop.request].context = sessions[lastop.session].root
      ELSE reqs[lastop.request].context = lastop.ctxAtRoot

C9_Witness ==
    /\ PrepareOk /\ lastop.argRequest # 0 /\ lastop.ctxAtRoot = CtxNone
    /\ reqs[lastop.request].context = sessions[lastop.session].root

\* C10: a prepare() or get_root() that fails leaves the thread-local stack
\* as it was before the call.
C10_FailureLeavesStack ==
    [][((lastop'.op = "prepare" \/ lastop'.op = "get_root") /\ lastop'.result # "ok")
       => stack' = stack]_vars

====
